---- MODULE Spec2Model ----
(***************************************************************************)
(* Model of src/streamlit_app.py: the quota gate (check_access,            *)
(* increment_usage) over the Google sheet, the extraction pipeline         *)
(* (analyze_lease) against the inference service, and the Streamlit        *)
(* script that wires them to the widgets of one browser session.           *)
(*                                                                         *)
(* A Streamlit script is re-executed from the top on every widget          *)
(* interaction.  ScriptRun is one such execution up to the call of         *)
(* analyze_lease; the calls to the remote services that follow are one     *)
(* action each, because the services answer nondeterministically.          *)
(***************************************************************************)
EXTENDS Integers, Sequences, FiniteSets, TLC

VARIABLES
    sheet,           \* the data rows of sheet1 (row 1 of the sheet is the header)
    tempFile,        \* content of the local file "temp_upload.pdf"
    password,        \* value of the "Access Code" text input, per session
    access,          \* (status, used, limit) of this script run, per session
    storeAns,        \* how the store answered check_access in this script run
    legal_accepted,  \* st.session_state["legal_accepted"]
    uploaded_file,   \* value of the file_uploader widget (a file id)
    last_file_id,    \* st.session_state["last_file_id"]
    audit_result,    \* st.session_state["audit_result"]
    audit_excel,     \* st.session_state["audit_excel"]
    event,           \* the widget interaction that triggered this script run
    pc,              \* position of the session's script run
    cloud_file,      \* cloud_file.state.name, a local of analyze_lease
    remoteBytes,     \* the bytes the inference service received by upload
    attempt,         \* loop variable of the retry loop of analyze_lease
    data,            \* local variable data of analyze_lease
    outcome,         \* how analyze_lease ended in this script run
    genLog,          \* outcome of each generate_content call of this run
    uploadCalls,     \* files.upload calls of this run
    delCalls,        \* files.delete calls of this run
    delRaised,       \* whether files.delete raised in this run
    incCalls,        \* increment_usage calls of this run
    inc,             \* row and value read by increment_usage
    probe            \* argument and result of a function applied on its own

uiVars  == <<password, access, storeAns, legal_accepted, uploaded_file, last_file_id,
             audit_result, audit_excel, event>>
runVars == <<cloud_file, remoteBytes, attempt, data, outcome, genLog,
             uploadCalls, delCalls, delRaised, incCalls, inc>>
vars    == <<sheet, tempFile, pc, uiVars, runVars, probe>>

----------------------------------------------------------------------------
(* Bounds of the model *)

MaxUsed  == 2       \* largest used count of an initial record
MaxLimit == 2       \* largest limit of an initial record
MaxCount == 5       \* used count above which the sheet refuses an update

Sessions == {1, 2}  \* browser sessions of the app
Solo     == {1}     \* the sessions that act under Spec

----------------------------------------------------------------------------
(* Values *)

None    == -1                               \* Python None in an integer position
NoFile  == "None"                           \* no file in the uploader
Files   == {"f1", "f2"}                     \* file ids the uploader hands out
NoBytes == [owner |-> 0, file |-> "None"]   \* temp_upload.pdf does not exist
Content(s, f) == [owner |-> s, file |-> f]  \* uploaded_file.getvalue()

Codes == {"DEMO", "2", "NOPE"}              \* access codes a user may type

RemoteFileState == {"PENDING", "PROCESSING", "READY", "FAILED"}

max_retries == 3


----------------------------------------------------------------------------
(* The record store: sheet1 of the Google sheet.  Row 1 is the header; the *)
(* data rows follow, one account per row, columns username, used, limit,   *)
(* active (increment_usage addresses the used count as column 2).          *)

Header == <<"username", "used", "limit", "active">>

Row(u, n, l, a) == [username |-> u, used |-> n, limit |-> l, active |-> a]

\* a row as the strings of its four cells, in column order
Cells(row) == <<row.username, ToString(row.used), ToString(row.limit), row.active>>

\* str.upper() on the values an active cell holds
Upper(str) == CASE str = "true"  -> "TRUE"
                [] str = "false" -> "FALSE"
                [] OTHER         -> str

Access(st, u, l) == [status |-> st, used |-> u, limit |-> l]

\* the comparison that closes the gate
OverLimit_strict(used, limit) == used > limit
OverLimit(used, limit) == used >= limit

\* the rows of records from index i on, scanned in order (the for loop)
RECURSIVE ScanRecords(_, _, _)
ScanRecords(records, i, code) ==
    IF i > Len(records) THEN Access("Invalid Code", None, None)
    ELSE LET row == records[i] IN
         IF row.username = code
         THEN IF Upper(row.active) # "TRUE"
              THEN Access("Deactivated", None, None)
              ELSE IF OverLimit(row.used, row.limit)
                   THEN Access("Limit Reached", row.used, row.limit)
                   ELSE Access("OK", row.used, row.limit)
         ELSE ScanRecords(records, i + 1, code)

check_access_silent(code, conn, records) ==
    IF conn = "ok" THEN ScanRecords(records, 1, code)
    ELSE ScanRecords(<<>>, 1, code)

\* conn: "ok", "noconnect" (connect_to_sheet returns None) or "readfail"
\* (get_all_records raises)
check_access(code, conn, records) ==
    CASE conn = "noconnect" -> Access("Database Error", None, None)
      [] conn = "readfail"  -> Access("System Error", None, None)
      [] OTHER              -> ScanRecords(records, 1, code)

\* sheet.find(code): the sheet row (header = 1) of the first cell, in
\* row-major order, whose text is code; 0 when no cell matches
RECURSIVE FindFrom(_, _, _)
FindFrom(records, r, code) ==
    IF r > Len(records) + 1 THEN 0
    ELSE LET cells == IF r = 1 THEN Header ELSE Cells(records[r - 1]) IN
         IF \E c \in 1..4 : cells[c] = code THEN r
         ELSE FindFrom(records, r + 1, code)

Find(records, code) == FindFrom(records, 1, code)

----------------------------------------------------------------------------
(* JSON values and the model's response text *)

Fields == {"tenant_name", "monthly_rent", "security_deposit", "risk_score",
           "risk_flags"}

JStr(str)  == [t |-> "str",  s |-> str, n |-> 0, l |-> <<>>]
JInt(num)  == [t |-> "int",  s |-> "",  n |-> num, l |-> <<>>]
JList(lst) == [t |-> "list", s |-> "",  n |-> 0, l |-> lst]

NoData    == [kind |-> "None", obj |-> <<>>]   \* data = None
Dict(o)   == [kind |-> "dict", obj |-> o]
EmptyObj  == Dict(<<>>)                        \* {}
FullObj   == Dict([tenant_name |-> JStr("Acme"), monthly_rent |-> JStr("$5,000"),
                   security_deposit |-> JStr("$5,000"), risk_score |-> JInt(3),
                   risk_flags |-> JStr("none")])
FlagsObj  == Dict([risk_flags |-> JList(<<"A", "B">>)])

\* the text of a response is a sequence of tokens: the fence marker (three
\* backticks), the language tag that may follow it, whitespace, and payload
\* tokens
Fence   == "[fence]"
Json    == "json"
NL      == "[newline]"
\* the two ends of an object with the one field risk_flags, whose string
\* value is the text between them
ObjOpen  == "[{risk_flags:]"
ObjClose == "[}]"
Payload == [full |-> FullObj, flags |-> FlagsObj, empty |-> EmptyObj]
Texts == { <<"full">>, <<Fence, Json, NL, "full", NL, Fence>>,
           <<"empty">>, <<Fence, NL, "empty", NL, Fence>>, <<"Sorry, I cannot read this file.">> }

IsPrefix(pat, text) == Len(pat) <= Len(text) /\ SubSeq(text, 1, Len(pat)) = pat

RECURSIVE Remove(_, _)
Remove(text, pat) ==       \* text.replace(pat, "")
    IF text = <<>> THEN <<>>
    ELSE IF IsPrefix(pat, text)
         THEN Remove(SubSeq(text, Len(pat) + 1, Len(text)), pat)
         ELSE <<Head(text)>> \o Remove(Tail(text), pat)

RECURSIVE LStrip(_)
LStrip(text) == IF text # <<>> /\ Head(text) = NL THEN LStrip(Tail(text)) ELSE text

RECURSIVE RStrip(_)
RStrip(text) == IF text # <<>> /\ text[Len(text)] = NL
                THEN RStrip(SubSeq(text, 1, Len(text) - 1)) ELSE text

Strip(text) == RStrip(LStrip(text))

StripFences_bare_first(text) == Strip(Remove(Remove(text, <<Fence>>), <<Fence, Json>>))
StripFences(text) == Strip(Remove(Remove(text, <<Fence, Json>>), <<Fence>>))

\* the text is one of the named payloads
Named(text) == Len(text) = 1 /\ text[1] \in DOMAIN Payload

\* the text is an object whose string value is spelled out (a JSON string
\* holds no raw newline)
Quoted(text) ==
    /\ Len(text) >= 2
    /\ text[1] = ObjOpen
    /\ text[Len(text)] = ObjClose
    /\ \A i \in 2..(Len(text) - 1) : text[i] \notin {ObjOpen, ObjClose, NL}

RECURSIVE Concat(_)
Concat(text) == IF text = <<>> THEN "" ELSE Head(text) \o Concat(Tail(text))

\* json.loads: the parsed value, or NoData standing for JSONDecodeError
WellFormed(text) == Named(text) \/ Quoted(text)
json_loads(text) ==
    IF Named(text) THEN Payload[text[1]]
    ELSE IF Quoted(text)
         THEN Dict([risk_flags |-> JStr(Concat(SubSeq(text, 2, Len(text) - 1)))])
         ELSE NoData

\* bool(data), as tested by "if not data"
Truthy(d) == d.kind = "dict" /\ DOMAIN d.obj # {}

----------------------------------------------------------------------------
(* create_excel_bytes *)

RECURSIVE Join(_, _)
Join(lst, sep) == IF lst = <<>> THEN ""
                  ELSE IF Len(lst) = 1 THEN lst[1]
                  ELSE lst[1] \o sep \o Join(Tail(lst), sep)

\* str(value)
PyStr(v) == CASE v.t = "str"  -> v.s
              [] v.t = "int"  -> ToString(v.n)
              [] v.t = "list" -> "[" \o Join(v.l, ", ") \o "]"

Get_no_default(d, key, default) == IF key \in DOMAIN d.obj THEN d.obj[key] ELSE JStr("")
\* data.get(key, default)
Get(d, key, default) == IF key \in DOMAIN d.obj THEN d.obj[key] ELSE JStr(default)

create_excel_bytes(d) ==
    LET raw_flags == Get(d, "risk_flags", "None")
        risk_flags_str == IF raw_flags.t = "list" THEN Join(raw_flags.l, ", ")
                          ELSE PyStr(raw_flags)
    IN [headers |-> <<"Tenant", "Rent Breakdown", "Deposit", "Risk Score",
                      "Risk Summary">>,
        row |-> << PyStr(Get(d, "tenant_name", "N/A")),
                   PyStr(Get(d, "monthly_rent", "N/A")),
                   PyStr(Get(d, "security_deposit", "N/A")),
                   PyStr(Get(d, "risk_score", "0")),
                   risk_flags_str >>]

NoExcel == [headers |-> <<>>, row |-> <<>>]

----------------------------------------------------------------------------
(* Initial state: a sheet of two accounts, nobody has typed anything *)

ActiveCells == {"TRUE", "FALSE"}

InitSheets ==
    { << Row("DEMO", n, l, a), Row("2", 1, 2, "true") >> :
          n \in 0..MaxUsed, l \in 1..MaxLimit, a \in ActiveCells }

NoOutcome   == [kind |-> "none",     val |-> NoData, exc |-> ""]
Returned(d) == [kind |-> "returned", val |-> d,      exc |-> ""]
Raised(e)   == [kind |-> "raised",   val |-> NoData, exc |-> e]

NoInc == [row |-> 0, val |-> 0]

NoProbe == [arg |-> <<>>, out |-> <<>>]

\* nothing staged, nobody has typed anything
InitSession ==
    /\ tempFile = NoBytes
    /\ password = [s \in Sessions |-> ""]
    /\ access = [s \in Sessions |-> Access("WAITING", None, None)]
    /\ storeAns = [s \in Sessions |-> "none"]
    /\ legal_accepted = [s \in Sessions |-> FALSE]
    /\ uploaded_file = [s \in Sessions |-> NoFile]
    /\ last_file_id = [s \in Sessions |-> NoFile]
    /\ audit_result = [s \in Sessions |-> NoData]
    /\ audit_excel = [s \in Sessions |-> NoExcel]
    /\ event = [s \in Sessions |-> "none"]
    /\ pc = [s \in Sessions |-> "idle"]
    /\ cloud_file = [s \in Sessions |-> "none"]
    /\ remoteBytes = [s \in Sessions |-> NoBytes]
    /\ attempt = [s \in Sessions |-> 0]
    /\ data = [s \in Sessions |-> NoData]
    /\ outcome = [s \in Sessions |-> NoOutcome]
    /\ genLog = [s \in Sessions |-> <<>>]
    /\ uploadCalls = [s \in Sessions |-> 0]
    /\ delCalls = [s \in Sessions |-> 0]
    /\ delRaised = [s \in Sessions |-> FALSE]
    /\ incCalls = [s \in Sessions |-> 0]
    /\ inc = [s \in Sessions |-> NoInc]

Init ==
    /\ sheet \in InitSheets
    /\ InitSession
    /\ probe = NoProbe

----------------------------------------------------------------------------
(* The script, from its top to the call of analyze_lease *)

\* the guard of the legal gatekeeper and of everything below it
Unlocked_unchecked(pw, status) == pw # ""
Unlocked(pw, status) == pw # "" /\ status = "OK"

HandlerNext_finally(kind) == "increment"
\* where the run handler goes once analyze_lease has ended: on to
\* increment_usage after a return, to the except clause and the end of the
\* script after a raise
HandlerNext(kind) == IF kind = "returned" THEN "increment" ELSE "idle"

\* the locals of a script run are fresh in every run
FreshRun(s) ==
    /\ cloud_file' = [cloud_file EXCEPT ![s] = "none"]
    /\ remoteBytes' = [remoteBytes EXCEPT ![s] = NoBytes]
    /\ attempt' = [attempt EXCEPT ![s] = 0]
    /\ data' = [data EXCEPT ![s] = NoData]
    /\ outcome' = [outcome EXCEPT ![s] = NoOutcome]
    /\ genLog' = [genLog EXCEPT ![s] = <<>>]
    /\ uploadCalls' = [uploadCalls EXCEPT ![s] = 0]
    /\ delCalls' = [delCalls EXCEPT ![s] = 0]
    /\ delRaised' = [delRaised EXCEPT ![s] = FALSE]
    /\ incCalls' = [incCalls EXCEPT ![s] = 0]
    /\ inc' = [inc EXCEPT ![s] = NoInc]

\* One execution of the script with the widgets holding pw and fileIn, ev
\* being the interaction that triggered it and conn the store's answer.
Script(s, ev, pw, fileIn, conn) ==
    LET acc      == IF pw = "" THEN Access("WAITING", None, None)
                    ELSE check_access(pw, conn, sheet)
        unlocked == Unlocked(pw, acc.status)
        main     == unlocked /\ legal_accepted[s]
        \* a widget that is not rendered in a run loses its value
        file     == IF main THEN fileIn ELSE NoFile
        isNew    == main /\ file # NoFile /\ file # last_file_id[s]
        agree    == unlocked /\ ~legal_accepted[s] /\ ev = "agree"
        run      == main /\ file # NoFile /\ ev = "run"
    IN  /\ password' = [password EXCEPT ![s] = pw]
        /\ access' = [access EXCEPT ![s] = acc]
        /\ storeAns' = [storeAns EXCEPT ![s] = IF pw = "" THEN "none" ELSE conn]
        /\ legal_accepted' = [legal_accepted EXCEPT ![s] = @ \/ agree]
        /\ uploaded_file' = [uploaded_file EXCEPT ![s] = file]
        /\ last_file_id' = [last_file_id EXCEPT ![s] = IF isNew THEN file ELSE @]
        /\ audit_result' = [audit_result EXCEPT ![s] = IF isNew THEN NoData ELSE @]
        /\ event' = [event EXCEPT ![s] = ev]
        /\ pc' = [pc EXCEPT ![s] = IF agree THEN "rerun"
                                   ELSE IF run THEN "stage" ELSE "idle"]
        /\ FreshRun(s)
        /\ UNCHANGED <<probe, sheet, tempFile, audit_excel>>

ConnOutcomes == {"ok", "noconnect", "readfail"}

\* what the last script run rendered
TermsShown(s) == Unlocked(password[s], access[s].status) /\ ~legal_accepted[s]
MainShown(s)  == Unlocked(password[s], access[s].status) /\ legal_accepted[s]

\* the user edits the access code
TypeCode(s, p, conn) ==
    /\ pc[s] = "idle"
    /\ p # password[s]
    /\ Script(s, "code", p, uploaded_file[s], conn)

\* the user presses "I Agree & Enter Secure Workspace"
ClickAgree(s, conn) ==
    /\ pc[s] = "idle"
    /\ TermsShown(s)
    /\ Script(s, "agree", password[s], uploaded_file[s], conn)

\* st.rerun()
Rerun(s, conn) ==
    /\ pc[s] = "rerun"
    /\ Script(s, "rerun", password[s], uploaded_file[s], conn)

\* the user puts a file into the uploader (every upload gets a new file id)
\* or removes the one that is there
PickFile(s, f, conn) ==
    /\ pc[s] = "idle"
    /\ MainShown(s)
    /\ f # uploaded_file[s]
    /\ f # last_file_id[s]
    /\ Script(s, "file", password[s], f, conn)

\* the user presses "Run Analysis"
ClickRun(s, conn) ==
    /\ pc[s] = "idle"
    /\ MainShown(s)
    /\ uploaded_file[s] # NoFile
    /\ Script(s, "run", password[s], uploaded_file[s], conn)

\* the results dashboard and its download button are on the page
Displayed(s) ==
    /\ MainShown(s)
    /\ uploaded_file[s] # NoFile
    /\ audit_result[s] # NoData

\* the user presses "Download Professional Excel Report": the browser gets
\* the workbook and the script runs again
ClickDownload(s, conn) ==
    /\ pc[s] = "idle"
    /\ Displayed(s)
    /\ Script(s, "download", password[s], uploaded_file[s], conn)

----------------------------------------------------------------------------
(* analyze_lease *)

\* the locals of analyze_lease end with the call
Exit(s) ==
    /\ cloud_file' = [cloud_file EXCEPT ![s] = "none"]
    /\ attempt' = [attempt EXCEPT ![s] = 0]
    /\ data' = [data EXCEPT ![s] = NoData]

\* raise Exception(e) out of analyze_lease, caught by the run handler
Raise(s, e) ==
    /\ outcome' = [outcome EXCEPT ![s] = Raised(e)]
    /\ pc' = [pc EXCEPT ![s] = HandlerNext("raised")]
    /\ Exit(s)

\* analyze_lease goes on to the step at label
Goto(s, label) ==
    /\ pc' = [pc EXCEPT ![s] = label]
    /\ UNCHANGED outcome

\* get_gemini_client, then the document is written to temp_upload.pdf
Stage(s, key) ==
    /\ pc[s] = "stage"
    /\ IF ~key
       THEN /\ Raise(s, "API Key Missing")
            /\ UNCHANGED tempFile
       ELSE /\ tempFile' = Content(s, uploaded_file[s])
            /\ Goto(s, "upload")
            /\ UNCHANGED <<cloud_file, attempt, data>>
    /\ UNCHANGED <<probe, sheet, uiVars, remoteBytes, genLog, uploadCalls, delCalls,
                   delRaised, incCalls, inc>>

\* client.files.upload(file=temp_filename): r is the state of the new
\* remote file, or "raise"
Upload(s, r) ==
    /\ pc[s] = "upload"
    /\ uploadCalls' = [uploadCalls EXCEPT ![s] = @ + 1]
    /\ IF r = "raise"
       THEN /\ Raise(s, "UploadError")
            /\ UNCHANGED remoteBytes
       ELSE /\ cloud_file' = [cloud_file EXCEPT ![s] = r]
            /\ remoteBytes' = [remoteBytes EXCEPT ![s] = tempFile]
            /\ Goto(s, "poll")
            /\ UNCHANGED <<attempt, data>>
    /\ UNCHANGED <<probe, sheet, tempFile, uiVars, genLog, delCalls, delRaised,
                   incCalls, inc>>

KeepPolling_always(state) == TRUE
\* the condition of the readiness loop
KeepPolling(state) == state = "PROCESSING"

\* one turn of the readiness loop: sleep, client.files.get
Poll(s, r) ==
    /\ pc[s] = "poll"
    /\ KeepPolling(cloud_file[s])
    /\ IF r = "raise"
       THEN Raise(s, "GetError")
       ELSE /\ cloud_file' = [cloud_file EXCEPT ![s] = r]
            /\ UNCHANGED <<pc, outcome, attempt, data>>
    /\ UNCHANGED <<probe, sheet, tempFile, uiVars, remoteBytes, genLog, uploadCalls,
                   delCalls, delRaised, incCalls, inc>>

\* the loop has ended: FAILED raises, any other state goes on to the model
PollExit(s) ==
    /\ pc[s] = "poll"
    /\ ~KeepPolling(cloud_file[s])
    /\ IF cloud_file[s] = "FAILED"
       THEN Raise(s, "PDF Syntax Error")
       ELSE /\ Goto(s, "generate")
            /\ UNCHANGED <<cloud_file, attempt, data>>
    /\ UNCHANGED <<probe, sheet, tempFile, uiVars, remoteBytes, genLog, uploadCalls,
                   delCalls, delRaised, incCalls, inc>>

\* what generate_content can do: raise ResourceExhausted, raise another
\* exception, or answer with a text
Responses ==
    {[kind |-> "Throttled", text |-> <<>>], [kind |-> "ModelError", text |-> <<>>]}
    \cup {[kind |-> "text", text |-> txt] : txt \in Texts}

\* the number of turns of the retry loop
Turns_one_more == max_retries + 1
Turns == max_retries

\* one turn of the retry loop up to its break or except: the exception
\* ("ok" when there is none) and the value json.loads returned
AttemptResult(resp) ==
    IF resp.kind # "text" THEN [res |-> resp.kind, val |-> NoData]
    ELSE LET text == StripFences(resp.text) IN
         IF WellFormed(text) THEN [res |-> "ok", val |-> json_loads(text)]
         ELSE [res |-> "JSONDecodeError", val |-> NoData]

\* the turn on which an exception other than ResourceExhausted is re-raised
LastAttempt_any(a) == TRUE
LastAttempt(a) == a = Turns - 1

\* the for statement takes the next turn, or ends after max_retries turns
NextTurn(s) ==
    /\ attempt' = [attempt EXCEPT ![s] = @ + 1]
    /\ Goto(s, IF attempt[s] + 1 < Turns THEN "generate" ELSE "delete")
    /\ UNCHANGED <<cloud_file, data>>

\* one turn of the retry loop
Generate(s, resp) ==
    LET got == AttemptResult(resp) IN
    /\ pc[s] = "generate"
    /\ genLog' = [genLog EXCEPT ![s] = Append(@, got)]
    /\ CASE got.res = "ok" ->
              /\ data' = [data EXCEPT ![s] = got.val]
              /\ Goto(s, "delete")
              /\ UNCHANGED <<cloud_file, attempt>>
         [] got.res = "Throttled" -> NextTurn(s)
         [] OTHER -> IF LastAttempt(attempt[s]) THEN Raise(s, got.res)
                     ELSE NextTurn(s)
    /\ UNCHANGED <<probe, sheet, tempFile, uiVars, remoteBytes, uploadCalls, delCalls,
                   delRaised, incCalls, inc>>

\* the exception that leaves the try around files.delete ("" for none)
CleanupExc_raises(ok) == IF ok THEN "" ELSE "DeleteError"
CleanupExc(ok) == ""

\* client.files.delete(name=cloud_file.name)
Delete(s, ok) ==
    /\ pc[s] = "delete"
    /\ delCalls' = [delCalls EXCEPT ![s] = @ + 1]
    /\ delRaised' = [delRaised EXCEPT ![s] = ~ok]
    /\ IF CleanupExc(ok) # ""
       THEN Raise(s, CleanupExc(ok))
       ELSE /\ Goto(s, "finish")
            /\ UNCHANGED <<cloud_file, attempt, data>>
    /\ UNCHANGED <<probe, sheet, tempFile, uiVars, remoteBytes, genLog, uploadCalls,
                   incCalls, inc>>

\* "if not data: raise", else analyze_lease returns and the run handler
\* stores the result and the workbook in the session
Finish(s) ==
    /\ pc[s] = "finish"
    /\ IF ~Truthy(data[s])
       THEN /\ Raise(s, "AI could not extract data.")
            /\ UNCHANGED <<audit_result, audit_excel>>
       ELSE /\ outcome' = [outcome EXCEPT ![s] = Returned(data[s])]
            /\ audit_result' = [audit_result EXCEPT ![s] = data[s]]
            /\ audit_excel' = [audit_excel EXCEPT ![s] = create_excel_bytes(data[s])]
            /\ pc' = [pc EXCEPT ![s] = HandlerNext("returned")]
            /\ Exit(s)
    /\ UNCHANGED <<probe, sheet, tempFile, password, access, storeAns, legal_accepted,
                   uploaded_file, last_file_id, event, remoteBytes, genLog,
                   uploadCalls, delCalls, delRaised, incCalls, inc>>

----------------------------------------------------------------------------
(* increment_usage: find the cell, read column 2 of its row, write it back *)

\* the exception that leaves increment_usage when one of its calls to the
\* store fails ("" for none: the bare except passes)
IncExc_raises(failed) == IF failed THEN "IncrementError" ELSE ""
IncExc(failed) == ""

\* a call of increment_usage to the store failed
IncFail(s) ==
    /\ pc' = [pc EXCEPT ![s] = "idle"]
    /\ outcome' = [outcome EXCEPT ![s] = IF IncExc(TRUE) = "" THEN @
                                         ELSE Raised(IncExc(TRUE))]

\* conn: "ok", "noconnect" (connect_to_sheet returns None) or "findfail"
\* (sheet.find raises or finds no cell)
IncRead(s, conn) ==
    LET row == Find(sheet, password[s]) IN
    /\ pc[s] = "increment"
    /\ incCalls' = [incCalls EXCEPT ![s] = @ + 1]
    /\ IF conn # "ok" \/ row = 0 \/ row = 1
       THEN \* sheet or cell is None, or column 2 holds the header text
            /\ IncFail(s)
            /\ UNCHANGED inc
       ELSE /\ inc' = [inc EXCEPT ![s] = [row |-> row, val |-> sheet[row - 1].used]]
            /\ pc' = [pc EXCEPT ![s] = "inc_write"]
            /\ UNCHANGED outcome
    /\ UNCHANGED <<probe, sheet, tempFile, uiVars, cloud_file, remoteBytes, attempt,
                   data, genLog, uploadCalls, delCalls, delRaised>>

IncWrite(s, ok) ==
    /\ pc[s] = "inc_write"
    /\ ok => inc[s].val < MaxCount
    /\ IF ok
       THEN /\ sheet' = [sheet EXCEPT ![inc[s].row - 1].used = inc[s].val + 1]
            /\ pc' = [pc EXCEPT ![s] = "idle"]
            /\ UNCHANGED outcome
       ELSE /\ IncFail(s)
            /\ UNCHANGED sheet
    /\ UNCHANGED <<probe, tempFile, uiVars, cloud_file, remoteBytes, attempt,
                   data, genLog, uploadCalls, delCalls, delRaised, incCalls, inc>>

----------------------------------------------------------------------------
(* One session *)

Next ==
    \E s \in Solo :
        \/ \E p \in Codes \cup {""}, conn \in ConnOutcomes : TypeCode(s, p, conn)
        \/ \E conn \in ConnOutcomes : ClickAgree(s, conn)
        \/ \E conn \in ConnOutcomes : Rerun(s, conn)
        \/ \E f \in Files \cup {NoFile}, conn \in ConnOutcomes : PickFile(s, f, conn)
        \/ \E conn \in ConnOutcomes : ClickRun(s, conn)
        \/ \E conn \in ConnOutcomes : ClickDownload(s, conn)
        \/ \E key \in BOOLEAN : Stage(s, key)
        \/ \E r \in RemoteFileState \cup {"raise"} : Upload(s, r)
        \/ \E r \in RemoteFileState \cup {"raise"} : Poll(s, r)
        \/ PollExit(s)
        \/ \E resp \in Responses : Generate(s, resp)
        \/ \E ok \in BOOLEAN : Delete(s, ok)
        \/ Finish(s)
        \/ \E conn \in {"ok", "noconnect", "findfail"} : IncRead(s, conn)
        \/ \E ok \in BOOLEAN : IncWrite(s, ok)

Spec == Init /\ [][Next]_vars

----------------------------------------------------------------------------
(* The quota gate alone: check_access applied to every code over every    *)
(* sheet of two accounts within the bounds                                 *)

GateSheets ==
    { << Row("DEMO", n1, l1, a1), Row("2", n2, l2, a2) >> :
          n1 \in 0..MaxUsed, l1 \in 1..MaxLimit, a1 \in ActiveCells,
          n2 \in 0..MaxUsed, l2 \in 1..MaxLimit, a2 \in {"true", "false"} }

InitGate ==
    /\ sheet \in GateSheets
    /\ InitSession
    /\ probe = NoProbe

NextGate ==
    \E s \in Solo, p \in Codes \cup {""}, conn \in ConnOutcomes : TypeCode(s, p, conn)

SpecGate == InitGate /\ [][NextGate]_vars


----------------------------------------------------------------------------
(* The parse of a response alone: lines 194-195 applied to a payload inside *)
(* fence markers and to the same payload without them                       *)

DemoSheet == << Row("DEMO", 0, MaxLimit, "TRUE"), Row("2", 1, 2, "true") >>

\* JSON documents the model may answer with, two of them cut short
ParsePayloads ==
    { <<"full">>, <<"flags">>, <<"empty">>,
      <<ObjOpen, "see", ObjClose>>,
      <<ObjOpen, ObjClose>>,
      <<ObjOpen, Fence, ObjClose>>,
      <<ObjOpen, "see", Fence, Json, "clause", Fence, ObjClose>>,
      <<ObjOpen, Json, ObjClose>>,
      <<ObjOpen, "see">>,
      <<ObjOpen, Fence>> }

\* the ways a payload is put inside a fenced code block
Wrappers == {"json-lines", "bare-lines", "json-tight", "bare-tight", "json-padded"}

Wrap(w, payload) ==
    CASE w = "json-lines"  -> <<Fence, Json, NL>> \o payload \o <<NL, Fence>>
      [] w = "bare-lines"  -> <<Fence, NL>> \o payload \o <<NL, Fence>>
      [] w = "json-tight"  -> <<Fence, Json>> \o payload \o <<Fence>>
      [] w = "bare-tight"  -> <<Fence>> \o payload \o <<Fence>>
      [] w = "json-padded" -> <<NL, Fence, Json, NL>> \o payload \o <<NL, Fence, NL, NL>>

TextResponse(text) == [kind |-> "text", text |-> text]

InitParse ==
    /\ sheet = DemoSheet
    /\ InitSession
    /\ probe \in {[arg |-> <<w, payload>>, out |-> <<>>] :
                      w \in Wrappers, payload \in ParsePayloads}

\* the fenced response goes through lines 194-195
ParseFenced ==
    /\ Len(probe.out) = 0
    /\ probe' = [probe EXCEPT !.out =
                    <<AttemptResult(TextResponse(Wrap(probe.arg[1], probe.arg[2])))>>]
    /\ UNCHANGED <<sheet, tempFile, pc, uiVars, runVars>>

\* the payload without markers goes through lines 194-195
ParsePlain ==
    /\ Len(probe.out) = 1
    /\ probe' = [probe EXCEPT !.out = Append(@, AttemptResult(TextResponse(probe.arg[2])))]
    /\ UNCHANGED <<sheet, tempFile, pc, uiVars, runVars>>

NextParse == ParseFenced \/ ParsePlain

SpecParse == InitParse /\ [][NextParse]_vars

----------------------------------------------------------------------------
(* create_excel_bytes alone, applied to a result with every subset of the  *)
(* recognized fields                                                       *)

\* the values a field of a result may hold
FieldValues(key) ==
    CASE key = "risk_score" -> {JInt(3)}
      [] key = "risk_flags" -> {JStr("none"), JList(<<"A">>), JList(<<"A", "B">>)}
      [] key = "tenant_name" -> {JStr("Acme")}
      [] OTHER -> {JStr("$5,000")}

Results ==
    UNION { {Dict(o) : o \in [present -> UNION {FieldValues(k) : k \in present}]} :
              present \in SUBSET Fields }

EncodeArgs == {d \in Results : \A k \in DOMAIN d.obj : d.obj[k] \in FieldValues(k)}

InitEncode ==
    /\ sheet = DemoSheet
    /\ InitSession
    /\ probe \in {[arg |-> <<d>>, out |-> <<>>] : d \in EncodeArgs}

Encode ==
    /\ Len(probe.out) = 0
    /\ probe' = [probe EXCEPT !.out = <<create_excel_bytes(probe.arg[1])>>]
    /\ UNCHANGED <<sheet, tempFile, pc, uiVars, runVars>>

NextEncode == Encode

SpecEncode == InitEncode /\ [][NextEncode]_vars

----------------------------------------------------------------------------
(* Properties *)

\* analyze_lease has ended in this script run of session s
RunEnded(s) == outcome[s].kind # "none"

\* files.upload returned a remote handle in this script run of session s
HandleObtained(s) == remoteBytes[s] # NoBytes

\* the last entry of the log of generate calls
LastGen(s) == genLog[s][Len(genLog[s])]

Exhausted == "AI could not extract data."

\* C1: every run of analyze_lease in which upload returned a remote handle
\* has issued exactly one files.delete call by the time it ends, whatever
\* the outcome.
C1_ExactlyOneDelete ==
    \A s \in Sessions :
        (RunEnded(s) /\ HandleObtained(s)) => delCalls[s] = 1

\* C2: a run calls generate_content at most 3 times, and a run in which
\* every call was throttled ends after exactly 3 calls with the exhausted
\* error, never with a result.
AllThrottled(s) ==
    /\ genLog[s] # <<>>
    /\ \A i \in 1..Len(genLog[s]) : genLog[s][i].res = "Throttled"

C2_AtMostThreeAttempts ==
    \A s \in Sessions :
        /\ Len(genLog[s]) <= 3
        /\ (RunEnded(s) /\ AllThrottled(s)) =>
               /\ Len(genLog[s]) = 3
               /\ outcome[s] = Raised(Exhausted)

C2_Witness ==
    \E s \in Sessions : RunEnded(s) /\ AllThrottled(s) /\ Len(genLog[s]) = 3

\* C3 (as stated): an attempt that fails for a reason other than Throttled
\* is the last generate call of the run, and the run has ended with that
\* error.
Failure(entry) == entry.res \notin {"ok", "Throttled"}

C3_AbortOnAnyFailure ==
    \A s \in Sessions : \A i \in 1..Len(genLog[s]) :
        Failure(genLog[s][i]) =>
            /\ i = Len(genLog[s])
            /\ outcome[s] = Raised(genLog[s][i].res)

\* C3 (amended): an attempt that fails for a reason other than Throttled
\* ends the run with that error, and without a further generate call, only
\* when it is the 3rd attempt; after such a failure on the 1st or 2nd
\* attempt the run has not ended and goes on to the next generate call.
C3_AbortOnThirdFailureOnly ==
    \A s \in Sessions : \A i \in 1..Len(genLog[s]) :
        Failure(genLog[s][i]) =>
            IF i = 3
            THEN /\ Len(genLog[s]) = 3
                 /\ outcome[s] = Raised(genLog[s][i].res)
                 /\ pc[s] = "idle"
            ELSE Len(genLog[s]) = i => (pc[s] = "generate" /\ ~RunEnded(s))

C3_Witness ==
    \E s \in Sessions :
        /\ Len(genLog[s]) = 3
        /\ Failure(genLog[s][1])
        /\ Failure(genLog[s][3])
        /\ outcome[s] = Raised(genLog[s][3].res)

\* C4: with the store read, check_access answers Invalid Code when no record
\* has the code, Deactivated when the record's active flag is not true
\* whatever used and limit are, Limit Reached when it is active and
\* used >= limit, and OK with (used, limit) when it is active and
\* used < limit.
StoreRead(s) == access[s].status \notin {"WAITING", "Database Error", "System Error"}
RecordsOf(code) == {i \in 1..Len(sheet) : sheet[i].username = code}
FlagTrue(cell) == cell \in {"TRUE", "true"}

C4_CheckAccess ==
    \A s \in Sessions :
        StoreRead(s) =>
            /\ RecordsOf(password[s]) = {} =>
                   access[s] = Access("Invalid Code", None, None)
            /\ \A i \in RecordsOf(password[s]) :
                   LET row == sheet[i] IN
                   /\ ~FlagTrue(row.active) =>
                          access[s] = Access("Deactivated", None, None)
                   /\ (FlagTrue(row.active) /\ row.used >= row.limit) =>
                          access[s] = Access("Limit Reached", row.used, row.limit)
                   /\ (FlagTrue(row.active) /\ row.used < row.limit) =>
                          access[s] = Access("OK", row.used, row.limit)

C4_Witness ==
    \E s \in Sessions : \E i \in RecordsOf(password[s]) :
        /\ FlagTrue(sheet[i].active)
        /\ sheet[i].used = sheet[i].limit - 1
        /\ access[s] = Access("OK", sheet[i].used, sheet[i].limit)

\* C5: in a script run whose quota check answered anything but OK,
\* analyze_lease is not entered and files.upload is not called, whatever
\* the interaction that triggered the run.
InPipeline(s) == pc[s] \in {"stage", "upload", "poll", "generate", "delete", "finish"}

C5_NoUploadUnlessAllowed ==
    \A s \in Sessions :
        access[s].status # "OK" =>
            /\ uploadCalls[s] = 0
            /\ ~InPipeline(s)
            /\ ~RunEnded(s)

\* Run was pressed by a client whose quota is used up (used = limit)
C5_Witness ==
    \E s \in Sessions :
        /\ event[s] = "run"
        /\ access[s].status = "Limit Reached"
        /\ access[s].used = access[s].limit
        /\ uploadCalls[s] = 0

\* C6: increment_usage is called at most once in a script run and only
\* after analyze_lease has returned a result; the sheet changes only in
\* such a run, so a run that fails leaves every used count as it was.
C6_IncrementOnlyAfterSuccess ==
    [][ /\ \A s \in Sessions :
               incCalls'[s] > incCalls[s] =>
                   (incCalls[s] = 0 /\ outcome[s].kind = "returned")
        /\ sheet' # sheet =>
               \E s \in Sessions : pc[s] = "inc_write" /\ outcome[s].kind = "returned"
      ]_vars

C6_Witness ==
    \E s \in Sessions :
        /\ pc[s] = "idle"
        /\ outcome[s].kind = "returned"
        /\ incCalls[s] = 1
        /\ password[s] = "DEMO"
        /\ sheet[1].used = access[s].used + 1

\* C7: once a script run is over, the file written when the document was
\* staged is gone.
C7_LocalArtifactRemoved ==
    \A s \in Sessions :
        pc[s] = "idle" => tempFile.owner # s

\* C8: generate_content is called only with the remote file READY, and a
\* run that found it FAILED ends with the document error without a
\* generate call.
C8_GenerateOnlyWhenReady ==
    \A s \in Sessions :
        /\ pc[s] = "generate" => cloud_file[s] = "READY"
        /\ outcome[s] = Raised("PDF Syntax Error") => genLog[s] = <<>>

\* C9: when files.delete raised, the run still ends as the extraction
\* decided: with the parsed object when an attempt produced one, with the
\* extraction's exhausted error when none did, never with the error of
\* delete.
C9_DeleteFailureSwallowed ==
    \A s \in Sessions :
        (RunEnded(s) /\ delRaised[s]) =>
            /\ (LastGen(s).res = "ok" /\ LastGen(s).val # EmptyObj) =>
                   outcome[s] = Returned(LastGen(s).val)
            /\ LastGen(s).res # "ok" => outcome[s] = Raised(Exhausted)
            /\ outcome[s].exc \in {"", Exhausted}

C9_Witness ==
    \E s \in Sessions :
        /\ RunEnded(s)
        /\ delRaised[s]
        /\ outcome[s] = Returned(FullObj)

\* C10: when an attempt received and parsed a well-formed JSON object, that
\* attempt is the last generate call and the run returns exactly that
\* object, the empty object included.
C10_ReturnsParsedObject ==
    \A s \in Sessions :
        /\ \A i \in 1..Len(genLog[s]) : genLog[s][i].res = "ok" => i = Len(genLog[s])
        /\ (RunEnded(s) /\ genLog[s] # <<>> /\ LastGen(s).res = "ok") =>
               outcome[s] = Returned(LastGen(s).val)

\* C11: when increment_usage failed after a successful extraction (the
\* store did not connect, the cell was not found, or the update failed), the
\* run handler has seen no error, and the result and the workbook of the run
\* are in the session and on the page.
IncFailed(s) ==
    /\ pc[s] = "idle"
    /\ incCalls[s] = 1
    /\ \/ inc[s] = NoInc
       \/ sheet[inc[s].row - 1].used = inc[s].val

C11_IncrementFailureHarmless ==
    \A s \in Sessions :
        IncFailed(s) =>
            /\ outcome[s].kind = "returned"
            /\ audit_result[s] = outcome[s].val
            /\ audit_excel[s] = create_excel_bytes(outcome[s].val)
            /\ Displayed(s)

C11_Witness ==
    \E s \in Sessions :
        /\ IncFailed(s)
        /\ inc[s] = NoInc
        /\ audit_result[s] = FullObj

\* C12: when the store did not connect or its records could not be read,
\* check_access answers with a store error, which is neither the answer for
\* an unknown code nor OK, whatever the code.
StoreDown(s) == storeAns[s] \in {"noconnect", "readfail"}

C12_StoreUnavailable ==
    \A s \in Sessions :
        StoreDown(s) =>
            /\ access[s].status \in {"Database Error", "System Error"}
            /\ access[s].status # "Invalid Code"
            /\ access[s].status # "OK"
            /\ access[s].used = None /\ access[s].limit = None

\* the store was down for a code that has an active record with quota left
C12_Witness ==
    \E s \in Sessions : \E i \in RecordsOf(password[s]) :
        /\ StoreDown(s)
        /\ FlagTrue(sheet[i].active)
        /\ sheet[i].used < sheet[i].limit

\* C13: a response whose payload is wrapped in fence markers is parsed to
\* the same value (or fails in the same way) as the payload without the
\* markers, for every payload.
C13_FencedParsesAlike ==
    Len(probe.out) = 2 => probe.out[1] = probe.out[2]

\* a payload whose string value itself holds a fence marker was parsed both
\* ways
C13_Witness ==
    /\ Len(probe.out) = 2
    /\ probe.arg = <<"json-lines", <<ObjOpen, "see", Fence, Json, "clause", Fence, ObjClose>> >>
    /\ probe.out[1].res = "ok"

\* the data row the claim describes: the string of each field that is
\* there, a placeholder for each that is not, a list of risk flags joined
\* by ", "
Has(d, key) == key \in DOMAIN d.obj

ExpectedCell(d, key, placeholder) ==
    IF ~Has(d, key) THEN placeholder
    ELSE LET v == d.obj[key] IN
         CASE v.t = "str" -> v.s
           [] v.t = "int" -> ToString(v.n)
           [] v.t = "list" ->
                IF key # "risk_flags" THEN PyStr(v)
                ELSE IF Len(v.l) = 0 THEN ""
                ELSE IF Len(v.l) = 1 THEN v.l[1]
                ELSE v.l[1] \o ", " \o v.l[2]

ExpectedRow(d) ==
    << ExpectedCell(d, "tenant_name", "N/A"),
       ExpectedCell(d, "monthly_rent", "N/A"),
       ExpectedCell(d, "security_deposit", "N/A"),
       ExpectedCell(d, "risk_score", "0"),
       ExpectedCell(d, "risk_flags", "None") >>

\* C14 (as stated): for every subset of the recognized fields
\* create_excel_bytes emits the header row Tenant, Rent, Deposit, Risk
\* Score, Risk Summary and the data row of five cells described above.
C14_HeaderAsStated ==
    Len(probe.out) = 1 =>
        /\ probe.out[1].headers = <<"Tenant", "Rent", "Deposit", "Risk Score", "Risk Summary">>
        /\ probe.out[1].row = ExpectedRow(probe.arg[1])

\* C14 (amended): the same with the header row Tenant, Rent Breakdown,
\* Deposit, Risk Score, Risk Summary.
C14_EncodesEverySubset ==
    Len(probe.out) = 1 =>
        /\ probe.out[1].headers =
               <<"Tenant", "Rent Breakdown", "Deposit", "Risk Score", "Risk Summary">>
        /\ Len(probe.out[1].row) = 5
        /\ probe.out[1].row = ExpectedRow(probe.arg[1])

\* a result with nothing but a list of two risk flags was encoded
C14_Witness ==
    /\ Len(probe.out) = 1
    /\ DOMAIN probe.arg[1].obj = {"risk_flags"}
    /\ probe.out[1].row = <<"N/A", "N/A", "N/A", "0", "A, B">>

----------------------------------------------------------------------------
(* Two sessions of the same client: both type DEMO, agree, upload a file   *)
(* and run; the store and the inference service answer every call          *)

\* the client's account starts anywhere within its limit
ConcSheets ==
    { << Row("DEMO", n, MaxLimit, "TRUE"), Row("2", 1, 2, "true") >> :
          n \in 0..MaxLimit }

InitConc ==
    /\ sheet \in ConcSheets
    /\ InitSession
    /\ probe = NoProbe

NextConc ==
    \E s \in Sessions :
        \/ TypeCode(s, "DEMO", "ok")
        \/ ClickAgree(s, "ok")
        \/ Rerun(s, "ok")
        \/ PickFile(s, "f1", "ok")
        \/ ClickRun(s, "ok")
        \/ Stage(s, TRUE)
        \/ Upload(s, "READY")
        \/ PollExit(s)
        \/ Generate(s, TextResponse(<<"full">>))
        \/ Delete(s, TRUE)
        \/ Finish(s)
        \/ IncRead(s, "ok")
        \/ IncWrite(s, TRUE)

SpecConc == InitConc /\ [][NextConc]_vars

\* C15: the used count of an account that starts within its limit never
\* exceeds the limit, however the sessions of the client interleave.
C15_UsedWithinLimit ==
    \A i \in 1..Len(sheet) : sheet[i].used <= sheet[i].limit

\* C16: every completed write of increment_usage raises the client's used
\* count by exactly 1 (no update is lost), and the count never decreases.
C16_NoLostUpdate ==
    [][ /\ \A s \in Sessions :
               (pc[s] = "inc_write" /\ pc'[s] = "idle") =>
                   sheet'[1].used = sheet[1].used + 1
        /\ sheet'[1].used >= sheet[1].used
      ]_vars

\* C17: the bytes a session's run has uploaded to the inference service are
\* the bytes of the document in that session's own uploader.
C17_UploadsOwnBytes ==
    \A s \in Sessions :
        HandleObtained(s) => remoteBytes[s] = Content(s, uploaded_file[s])

----------------------------------------------------------------------------
(* One session whose script thread keeps running: every step of            *)
(* analyze_lease that can be taken is taken, and the inference service      *)
(* moves a file out of PROCESSING                                           *)

InitLive ==
    /\ sheet = DemoSheet
    /\ InitSession
    /\ probe = NoProbe

\* files.get answers something other than PROCESSING, or raises
PollLeave(s) ==
    \E r \in (RemoteFileState \cup {"raise"}) \ {"PROCESSING"} : Poll(s, r)

Fairness ==
    \A s \in Solo :
        /\ WF_vars(\E key \in BOOLEAN : Stage(s, key))
        /\ WF_vars(\E r \in RemoteFileState \cup {"raise"} : Upload(s, r))
        /\ WF_vars(PollLeave(s))
        /\ WF_vars(PollExit(s))
        /\ WF_vars(\E resp \in Responses : Generate(s, resp))
        /\ WF_vars(\E ok \in BOOLEAN : Delete(s, ok))
        /\ WF_vars(Finish(s))

SpecLive == InitLive /\ [][Next]_vars /\ Fairness

\* C18: every run of analyze_lease ends, by a return or by an exception,
\* once the service moves the upload out of PROCESSING; the retry phase
\* never takes more than 3 attempts.
C18_RunEnds ==
    /\ \A s \in Sessions : InPipeline(s) ~> (~InPipeline(s) /\ RunEnded(s))
    /\ [](\A s \in Sessions : Len(genLog[s]) <= max_retries)

\* a run is waiting in the readiness poll on a file that is PROCESSING
C18_Witness ==
    \E s \in Sessions :
        /\ pc[s] = "poll"
        /\ cloud_file[s] = "PROCESSING"
        /\ ~RunEnded(s)

----------------------------------------------------------------------------
\* C19: a write of increment_usage changes only the used count of the
\* account whose username is the code, to its previous value plus 1; every
\* other cell of the sheet is as it was.
C19_IncrementOwnRowOnly ==
    [][ \A s \in Sessions :
            (pc[s] = "inc_write" /\ sheet' # sheet) =>
                \E i \in 1..Len(sheet) :
                    /\ sheet[i].username = password[s]
                    /\ sheet' = [sheet EXCEPT ![i].used = @ + 1]
      ]_vars

\* C20: on a rerun of the page with the same access code and the same file
\* (the one the download button triggers), with the store answering, a
\* result that was displayed is still displayed.
C20_ResultStaysDisplayed ==
    [][ \A s \in Sessions :
            ( /\ pc[s] = "idle"
              /\ Displayed(s)
              /\ event'[s] = "download"
              /\ storeAns'[s] = "ok" ) => Displayed(s)'
      ]_vars

====
